---- MODULE Spec2Model ----
(***************************************************************************)
(* A model of the shared-nlp library of saigon-signals: the request        *)
(* validators and text utilities (utils.ts), and the NlpService facade     *)
(* (nlp-service.ts) with its lazily created provider client.               *)
(*                                                                         *)
(* JavaScript values are records tagged by their typeof in field t; an     *)
(* object is a record whose other fields are the object's properties, so   *)
(* that  'code' in error  is  "code" \in DOMAIN error.  The text of a       *)
(* request is a sequence of one-character strings; every other string is   *)
(* a TLA+ string.  Fractional numbers (scores, confidences) are counted in *)
(* tenths.                                                                 *)
(***************************************************************************)
EXTENDS Integers, Sequences, FiniteSets, TLC

\* --------------------------------------------------------------- bounds
\* Concurrent calls in flight on one NlpService instance.
MaxCalls == 2
\* Longest request text, in characters.
MaxTextLen == 2
\* Most categories in one provider classification result.
MaxCats == 3
\* Most entities in one provider entity result.
MaxEnts == 3
\* Longest text of a request for sentence-level sentiment, in characters.
MaxSentenceTextLen == 4
\* Assignments made to process.env.
MaxEnvChanges == 1
\* NlpService objects constructed.
MaxInstances == 2

VARIABLES
  client,   \* NlpService.client: 0 is null, n > 0 the n-th handle created
  created,  \* handles initializeNlpClient has produced for this instance
  config,   \* NlpService.config, fixed by the constructor
  calls,    \* the calls in flight, by slot: the position of each async call
  env,      \* process.env, the variables loadConfigFromEnv reads
  envChanges,  \* assignments to process.env made so far
  presets,  \* the objects DEFAULT_NLP_CONFIG, VERTEX_AI_CONFIG and
            \* GOOGLE_CLOUD_NLP_CONFIG of config.ts, by name
  instances,   \* the NlpService objects constructed so far: for each, the
               \* object its config field refers to
  nlpServiceInstance,  \* shared-nlp.ts: 0 is null, n > 0 is instances[n]
  result    \* the last call of loadConfigFromEnv, new NlpService or
            \* getNlpService: its argument, the environment it ran in and
            \* what it returned

\* the state of one NlpService and its calls
facade == <<client, created, config, calls>>

\* the state of the configuration resolver and of the singleton accessor
resolver == <<env, envChanges, presets, instances, nlpServiceInstance, result>>

vars == <<client, created, config, calls, env, envChanges, presets, instances,
          nlpServiceInstance, result>>

\* ----------------------------------------------------- JavaScript values
Undefined == [t |-> "undefined"]
Null      == [t |-> "null"]
Num(n)    == [t |-> "number", v |-> n]
Str(s)    == [t |-> "string", v |-> s]
Bool(b)   == [t |-> "boolean", v |-> b]
Arr(s)    == [t |-> "object", class |-> "Array", v |-> s]

\* ToBoolean, as  x ? a : b ,  x || y  and  x && y  apply it.  (Never applied
\* to a request text.)
Truthy(x) ==
  CASE x.t = "undefined" -> FALSE
    [] x.t = "null"      -> FALSE
    [] x.t = "number"    -> x.v # 0
    [] x.t = "string"    -> x.v # ""
    [] x.t = "boolean"   -> x.v
    [] OTHER             -> TRUE

\* x || y
OrElse(x, y) == IF Truthy(x) THEN x ELSE y

\* 'f' in o, for o already known to be a non-null object
HasField(o, f) == f \in DOMAIN o

\* o.f, undefined when the property is missing
Get(o, f) == IF f \in DOMAIN o THEN o[f] ELSE Undefined

Min(a, b) == IF a <= b THEN a ELSE b
Max(a, b) == IF a >= b THEN a ELSE b

\* ------------------------------------------------------------- types.ts
VIETNAMESE == Str("vi")
ENGLISH    == Str("en")
Language   == {VIETNAMESE, ENGLISH}

INVALID_INPUT        == Str("INVALID_INPUT")
SERVICE_UNAVAILABLE  == Str("SERVICE_UNAVAILABLE")
UNSUPPORTED_LANGUAGE == Str("UNSUPPORTED_LANGUAGE")
UNKNOWN_ERROR        == Str("UNKNOWN_ERROR")

\* ------------------------------------------------------------- utils.ts
Whitespace == {" "}

RECURSIVE TrimStart(_)
TrimStart(s) ==
  IF s # <<>> /\ Head(s) \in Whitespace THEN TrimStart(Tail(s)) ELSE s

RECURSIVE TrimEnd(_)
TrimEnd(s) ==
  IF s # <<>> /\ s[Len(s)] \in Whitespace
    THEN TrimEnd(SubSeq(s, 1, Len(s) - 1))
    ELSE s

\* String.prototype.trim
Trim(s) == TrimEnd(TrimStart(s))

\* text.replace(/[<>]/g, '')
RECURSIVE StripAngles(_)
StripAngles(s) ==
  IF s = <<>> THEN <<>>
  ELSE IF Head(s) \in {"<", ">"} THEN StripAngles(Tail(s))
  ELSE <<Head(s)>> \o StripAngles(Tail(s))

isValidText(text) == text.t = "string" /\ Len(Trim(text.v)) > 0

isValidLanguage(language) == language \in Language

NoError == Undefined

NlpError(code, message) ==
  [t |-> "object", class |-> "Object", code |-> code, message |-> message]

validateNlpRequest_languageFirst(request) ==
  IF ~Truthy(request)
    THEN NlpError(INVALID_INPUT, Str("Request cannot be null or undefined"))
  ELSE IF Truthy(request.language) /\ ~isValidLanguage(request.language)
    THEN NlpError(UNSUPPORTED_LANGUAGE,
                  Str("Language '" \o request.language.v \o "' is not supported"))
  ELSE IF ~isValidText(request.text)
    THEN NlpError(INVALID_INPUT, Str("Text must be a non-empty string"))
  ELSE IF request.timeoutMs # Undefined
          /\ (request.timeoutMs.t # "number" \/ request.timeoutMs.v <= 0)
    THEN NlpError(INVALID_INPUT, Str("Timeout must be a positive number"))
  ELSE NoError

validateNlpRequest_noLanguageCheck(request) ==
  IF ~Truthy(request)
    THEN NlpError(INVALID_INPUT, Str("Request cannot be null or undefined"))
  ELSE IF ~isValidText(request.text)
    THEN NlpError(INVALID_INPUT, Str("Text must be a non-empty string"))
  ELSE IF request.timeoutMs # Undefined
          /\ (request.timeoutMs.t # "number" \/ request.timeoutMs.v <= 0)
    THEN NlpError(INVALID_INPUT, Str("Timeout must be a positive number"))
  ELSE NoError

validateNlpRequest_noTimeoutCheck(request) ==
  IF ~Truthy(request)
    THEN NlpError(INVALID_INPUT, Str("Request cannot be null or undefined"))
  ELSE IF ~isValidText(request.text)
    THEN NlpError(INVALID_INPUT, Str("Text must be a non-empty string"))
  ELSE IF Truthy(request.language) /\ ~isValidLanguage(request.language)
    THEN NlpError(UNSUPPORTED_LANGUAGE,
                  Str("Language '" \o request.language.v \o "' is not supported"))
  ELSE NoError

validateNlpRequest(request) ==
  IF ~Truthy(request)
    THEN NlpError(INVALID_INPUT, Str("Request cannot be null or undefined"))
  ELSE IF ~isValidText(request.text)
    THEN NlpError(INVALID_INPUT, Str("Text must be a non-empty string"))
  ELSE IF Truthy(request.language) /\ ~isValidLanguage(request.language)
    THEN NlpError(UNSUPPORTED_LANGUAGE,
                  Str("Language '" \o request.language.v \o "' is not supported"))
  ELSE IF request.timeoutMs # Undefined
          /\ (request.timeoutMs.t # "number" \/ request.timeoutMs.v <= 0)
    THEN NlpError(INVALID_INPUT, Str("Timeout must be a positive number"))
  ELSE NoError

sanitizeText(text) == Trim(StripAngles(text))

\* error instanceof Error
IsError(error) == error.t = "object" /\ error.class = "Error"

\* new Error(msg), new TypeError(msg): a message, no code
JsError(msg) == [t |-> "object", class |-> "Error", message |-> Str(msg)]

formatError_alwaysWraps(error, code, message) ==
  [t |-> "object", class |-> "Object",
   code |-> IF code = Undefined THEN UNKNOWN_ERROR ELSE code,
   message |-> IF IsError(error) THEN OrElse(message, error.message)
               ELSE IF error.t = "string" THEN OrElse(message, error)
               ELSE OrElse(message, Str("An unknown error occurred")),
   details |-> error]

\* formatError never reading the message of the error it is given
formatError_ownMessageUnread(error, code, message) ==
  IF error.t = "object" /\ HasField(error, "code") /\ HasField(error, "message")
    THEN error
    ELSE [t |-> "object", class |-> "Object",
          code |-> IF code = Undefined THEN UNKNOWN_ERROR ELSE code,
          message |-> OrElse(message, Str("An unknown error occurred")),
          details |-> error]

formatError(error, code, message) ==
  IF error.t = "object" /\ HasField(error, "code") /\ HasField(error, "message")
    THEN error
    ELSE [t |-> "object", class |-> "Object",
          code |-> IF code = Undefined THEN UNKNOWN_ERROR ELSE code,
          message |-> IF IsError(error) THEN OrElse(message, error.message)
                      ELSE IF error.t = "string" THEN OrElse(message, error)
                      ELSE OrElse(message, Str("An unknown error occurred")),
          details |-> error]

Terminators == {".", "!", "?"}

\* text.replace(/([.!?])\s+/g, '$1\n')
RECURSIVE BreakAfterTerminators(_)
BreakAfterTerminators(s) ==
  IF s = <<>> THEN <<>>
  ELSE IF Head(s) \in Terminators /\ Len(s) > 1 /\ s[2] \in Whitespace
    THEN <<Head(s), "\n">> \o BreakAfterTerminators(TrimStart(Tail(s)))
  ELSE <<Head(s)>> \o BreakAfterTerminators(Tail(s))

\* the part of s before its first line break
RECURSIVE FirstLine(_)
FirstLine(s) ==
  IF s = <<>> \/ Head(s) = "\n" THEN <<>>
  ELSE <<Head(s)>> \o FirstLine(Tail(s))

\* s.split('\n')
RECURSIVE SplitLines(_)
SplitLines(s) ==
  LET first == FirstLine(s) IN
  IF Len(first) = Len(s) THEN <<first>>
  ELSE <<first>> \o SplitLines(SubSeq(s, Len(first) + 2, Len(s)))

splitIntoSentences(text) ==
  LET pieces == SplitLines(BreakAfterTerminators(text))
      trimmed == [i \in 1..Len(pieces) |-> Trim(pieces[i])]
  IN SelectSeq(trimmed, LAMBDA p : Len(p) > 0)

\* String.prototype.indexOf: the first place of needle in hay, from 0; -1 if none
indexOf(hay, needle) ==
  LET places == {i \in 0..(Len(hay) - Len(needle)) :
                   SubSeq(hay, i + 1, i + Len(needle)) = needle}
  IN IF places = {} THEN -1
     ELSE CHOOSE i \in places : \A j \in places : i <= j

\* ------------------------------------------------------------ config.ts
DEFAULT_TIMEOUT_MS == 30000
DEFAULT_MAX_RETRIES == 3
DEFAULT_SERVICE_PROVIDER == Str("VERTEX_AI")
GOOGLE_CLOUD_REGION == Str("asia-southeast1")

VERTEX_AI_MODELS ==
  [t |-> "object", SENTIMENT_ANALYSIS |-> Str("text-sentiment"),
   ENTITY_EXTRACTION |-> Str("text-entity-extraction"),
   TEXT_CLASSIFICATION |-> Str("text-classification")]

DEFAULT_NLP_CONFIG ==
  [t |-> "object", provider |-> DEFAULT_SERVICE_PROVIDER,
   defaultTimeoutMs |-> Num(DEFAULT_TIMEOUT_MS),
   maxRetries |-> Num(DEFAULT_MAX_RETRIES),
   options |-> [t |-> "object", region |-> GOOGLE_CLOUD_REGION]]

\* (backoffMultiplier 1.3 is written in tenths)
VERTEX_AI_CONFIG ==
  [t |-> "object", provider |-> Str("VERTEX_AI"),
   defaultTimeoutMs |-> Num(DEFAULT_TIMEOUT_MS),
   maxRetries |-> Num(DEFAULT_MAX_RETRIES),
   options |->
     [t |-> "object", region |-> GOOGLE_CLOUD_REGION,
      models |-> VERTEX_AI_MODELS,
      useApplicationDefaultCredentials |-> Bool(TRUE),
      enableBatching |-> Bool(TRUE),
      retry |-> [t |-> "object", initialDelayMs |-> Num(100),
                 maxDelayMs |-> Num(60000), backoffMultiplier |-> Num(13)]]]

GOOGLE_CLOUD_NLP_CONFIG ==
  [t |-> "object", provider |-> Str("GOOGLE_CLOUD_NLP"),
   defaultTimeoutMs |-> Num(DEFAULT_TIMEOUT_MS),
   maxRetries |-> Num(DEFAULT_MAX_RETRIES),
   options |->
     [t |-> "object", useApplicationDefaultCredentials |-> Bool(TRUE),
      apiVersion |-> Str("v1")]]

\* the three exported configuration objects as the module creates them
Presets ==
  [DEFAULT_NLP_CONFIG |-> DEFAULT_NLP_CONFIG,
   VERTEX_AI_CONFIG |-> VERTEX_AI_CONFIG,
   GOOGLE_CLOUD_NLP_CONFIG |-> GOOGLE_CLOUD_NLP_CONFIG]

\* A reference to a configuration object: to one of the three exported
\* objects, by name, or to an object of the caller's, by its content.
Exported(name) == [t |-> "object", ref |-> name]
Owned(value)   == [t |-> "object", val |-> value]

\* the content of the object a reference points to
Deref(r, ps) == IF "ref" \in DOMAIN r THEN ps[r.ref] ELSE r.val

\* getNlpServiceConfig with the GOOGLE_CLOUD_NLP case missing
getNlpServiceConfig_noGoogleCase(provider) ==
  CASE provider = Str("VERTEX_AI") -> "VERTEX_AI_CONFIG"
    [] OTHER                       -> "DEFAULT_NLP_CONFIG"

\* the exported object getNlpServiceConfig returns, by name
getNlpServiceConfig(provider) ==
  CASE provider = Str("VERTEX_AI")        -> "VERTEX_AI_CONFIG"
    [] provider = Str("GOOGLE_CLOUD_NLP") -> "GOOGLE_CLOUD_NLP_CONFIG"
    [] OTHER                              -> "DEFAULT_NLP_CONFIG"

\* the variables of ENV_VARS that loadConfigFromEnv reads
\* (GOOGLE_APPLICATION_CREDENTIALS is declared and never read)
ENV_VARS ==
  {"GOOGLE_CLOUD_PROJECT", "GOOGLE_CLOUD_REGION", "NLP_SERVICE_PROVIDER",
   "NLP_API_KEY", "NLP_API_ENDPOINT", "NLP_REQUEST_TIMEOUT_MS",
   "NLP_MAX_RETRIES"}

\* Values of NLP_REQUEST_TIMEOUT_MS and NLP_MAX_RETRIES are kept as sequences
\* of characters, for parseInt to read; a set one is truthy unless empty.
TruthyText(x) == x # Undefined /\ x.v # <<>>

NaN == [t |-> "number", v |-> 0, nan |-> TRUE]

Digits == <<"0", "1", "2", "3", "4", "5", "6", "7", "8", "9">>

IsDigit(c) == \E k \in 1..Len(Digits) : Digits[k] = c

DigitValue(c) == (CHOOSE k \in 1..Len(Digits) : Digits[k] = c) - 1

\* the longest prefix of s made of digits
RECURSIVE DigitPrefix(_)
DigitPrefix(s) ==
  IF s = <<>> \/ ~IsDigit(Head(s)) THEN <<>>
  ELSE <<Head(s)>> \o DigitPrefix(Tail(s))

RECURSIVE DecimalValue(_)
DecimalValue(digits) ==
  IF digits = <<>> THEN 0
  ELSE 10 * DecimalValue(SubSeq(digits, 1, Len(digits) - 1))
         + DigitValue(digits[Len(digits)])

\* parseInt(string, 10): leading blanks are skipped, a sign is read, then
\* digits up to the first character that is not one; NaN if there is no digit
parseInt(string) ==
  LET s == TrimStart(string.v)
      negative == s # <<>> /\ Head(s) = "-"
      unsigned == IF s # <<>> /\ Head(s) \in {"+", "-"} THEN Tail(s) ELSE s
      digits == DigitPrefix(unsigned)
  IN IF digits = <<>> THEN NaN
     ELSE Num(IF negative THEN 0 - DecimalValue(digits)
                          ELSE DecimalValue(digits))

\* o.f = v
Assign(o, f, v) == [x \in DOMAIN o \cup {f} |-> IF x = f THEN v ELSE o[x]]

\* { ...o, f: v }
Spread(o, f, v) ==
  Assign(IF o.t = "object" THEN o ELSE [t |-> "object"], f, v)

\* loadConfigFromEnv run in environment e with the exported objects as in
\* ps: the exported objects after the call and the name of the one returned
loadConfigFromEnv(e, ps) ==
  LET providerStr == e.NLP_SERVICE_PROVIDER
      provider == IF Truthy(providerStr) THEN providerStr
                  ELSE DEFAULT_SERVICE_PROVIDER
      name == getNlpServiceConfig(provider)
      c0 == ps[name]
      c1 == IF Truthy(e.GOOGLE_CLOUD_PROJECT)
              THEN Assign(c0, "options",
                     Spread(Get(c0, "options"), "projectId",
                            e.GOOGLE_CLOUD_PROJECT))
              ELSE c0
      c2 == IF Truthy(e.GOOGLE_CLOUD_REGION)
              THEN Assign(c1, "options",
                     Spread(Get(c1, "options"), "region",
                            e.GOOGLE_CLOUD_REGION))
              ELSE c1
      c3 == IF Truthy(e.NLP_API_KEY)
              THEN Assign(c2, "credentials", e.NLP_API_KEY) ELSE c2
      c4 == IF Truthy(e.NLP_API_ENDPOINT)
              THEN Assign(c3, "endpoint", e.NLP_API_ENDPOINT) ELSE c3
      c5 == IF TruthyText(e.NLP_REQUEST_TIMEOUT_MS)
              THEN Assign(c4, "defaultTimeoutMs",
                          parseInt(e.NLP_REQUEST_TIMEOUT_MS))
              ELSE c4
      c6 == IF TruthyText(e.NLP_MAX_RETRIES)
              THEN Assign(c5, "maxRetries", parseInt(e.NLP_MAX_RETRIES))
              ELSE c5
  IN [presets |-> [ps EXCEPT ![name] = c6], config |-> Exported(name)]

\* the constructor reading the environment whatever it is given
NlpServiceConstructor_alwaysLoads(serviceConfig, e, ps) ==
  loadConfigFromEnv(e, ps)

\* new NlpService(serviceConfig): the exported objects after the call and
\* the object this.config refers to
NlpServiceConstructor(serviceConfig, e, ps) ==
  IF Truthy(serviceConfig)
    THEN [presets |-> ps, config |-> serviceConfig]
    ELSE loadConfigFromEnv(e, ps)

\* getNlpService keeping the stored instance whatever it is given
getNlpService_keepsStored(cfg, instance, count, e, ps) ==
  IF instance = 0
    THEN LET made == NlpServiceConstructor(cfg, e, ps)
         IN [presets |-> made.presets, constructed |-> TRUE,
             config |-> made.config, instance |-> count + 1]
    ELSE [presets |-> ps, constructed |-> FALSE, instance |-> instance]

\* getNlpService(config) when the stored instance is instance (0 for null)
\* and count instances exist: the exported objects after the call, the
\* object the new instance's config refers to if one is constructed, and the
\* instance stored and returned
getNlpService(cfg, instance, count, e, ps) ==
  IF instance = 0 \/ Truthy(cfg)
    THEN LET made == NlpServiceConstructor(cfg, e, ps)
         IN [presets |-> made.presets, constructed |-> TRUE,
             config |-> made.config, instance |-> count + 1]
    ELSE [presets |-> ps, constructed |-> FALSE, instance |-> instance]

\* ------------------------------------------------------- nlp-service.ts
Operations == {"analyzeSentiment", "extractEntities", "classifyText"}

\* the provider-client method each operation invokes
Method(op) ==
  CASE op = "analyzeSentiment" -> "analyzeSentiment"
    [] op = "extractEntities"  -> "analyzeEntities"
    [] op = "classifyText"     -> "classifyText"

\* the message each operation's catch block hands to formatError
FailureMessage(op) ==
  CASE op = "analyzeSentiment" -> Str("Failed to perform sentiment analysis.")
    [] op = "extractEntities"  -> Str("Failed to perform entity extraction.")
    [] op = "classifyText"     -> Str("Failed to perform text classification.")

\* 1.0, the confidence given to an entity or category that carries none
FullConfidence == 10

\* a?.b
Opt(a, f) == IF a.t = "object" THEN Get(a, f) ELSE Undefined

\* the apiRequest each operation builds from the sanitized text
ApiRequest(op, request, sanitizedText, cfg) ==
  CASE op = "analyzeSentiment" ->
         [document |->
            [content |-> Str(sanitizedText), type |-> "PLAIN_TEXT",
             language |-> OrElse(request.language,
                            OrElse(Opt(Opt(cfg, "options"), "defaultLanguage"),
                                   VIETNAMESE))],
          encodingType |-> "UTF8"]
    [] op = "extractEntities" ->
         [document |->
            [content |-> Str(sanitizedText), type |-> "PLAIN_TEXT",
             language |-> OrElse(request.language, VIETNAMESE)],
          encodingType |-> "UTF8"]
    [] op = "classifyText" ->
         [document |->
            [content |-> Str(sanitizedText), type |-> "PLAIN_TEXT",
             language |-> OrElse(request.language, VIETNAMESE)],
          model |-> OrElse(Opt(Opt(Opt(cfg, "options"), "models"),
                               "TEXT_CLASSIFICATION"),
                           Str("text-classification"))]

\* What the code after the provider call produces: a response, or the
\* TypeError that reading a property of undefined throws.  The two clock
\* readings of a response (processingTimeMs, timestamp) are left out.
Returned(response) == [threw |-> FALSE, response |-> response]
Thrown(error)      == [threw |-> TRUE, error |-> error]

\* Array.prototype.map, as used at nlp-service.ts:447, 576 and 714
MapSeq(s, F(_)) == [i \in 1..Len(s) |-> F(s[i])]

SentimentResponse_echoSanitized(request, sanitizedText, apiResponse) ==
  IF ~Truthy(Get(apiResponse, "documentSentiment"))
    THEN Thrown(JsError("Cannot read properties of undefined"))
  ELSE
    LET documentSentiment ==
          [score |-> apiResponse.documentSentiment.score,
           magnitude |-> apiResponse.documentSentiment.magnitude]
        apiSentences == Get(apiResponse, "sentences")
        sentences ==
          IF Truthy(request.analyzeSentences) /\ Truthy(apiSentences)
            THEN Arr(MapSeq(apiSentences.v,
                   LAMBDA s : [text |-> s.text.content,
                               score |-> s.sentiment.score,
                               magnitude |-> s.sentiment.magnitude,
                               beginOffset |-> Get(s.text, "beginOffset")]))
          ELSE IF Truthy(request.analyzeSentences) /\ ~Truthy(apiSentences)
            THEN Arr(MapSeq(splitIntoSentences(sanitizedText),
                   LAMBDA s : [text |-> Str(s),
                               score |-> documentSentiment.score,
                               magnitude |-> documentSentiment.magnitude,
                               beginOffset |-> Num(indexOf(sanitizedText, s))]))
          ELSE Undefined
    IN Returned([documentSentiment |-> documentSentiment,
                 sentences |-> sentences,
                 originalText |-> Str(sanitizedText),
                 language |-> OrElse(request.language, VIETNAMESE)])

\* analyzeSentiment echoing the request's language without a default
SentimentResponse_noDefaultLanguage(request, sanitizedText, apiResponse) ==
  IF ~Truthy(Get(apiResponse, "documentSentiment"))
    THEN Thrown(JsError("Cannot read properties of undefined"))
  ELSE
    LET documentSentiment ==
          [score |-> apiResponse.documentSentiment.score,
           magnitude |-> apiResponse.documentSentiment.magnitude]
        apiSentences == Get(apiResponse, "sentences")
        sentences ==
          IF Truthy(request.analyzeSentences) /\ Truthy(apiSentences)
            THEN Arr(MapSeq(apiSentences.v,
                   LAMBDA s : [text |-> s.text.content,
                               score |-> s.sentiment.score,
                               magnitude |-> s.sentiment.magnitude,
                               beginOffset |-> Get(s.text, "beginOffset")]))
          ELSE IF Truthy(request.analyzeSentences) /\ ~Truthy(apiSentences)
            THEN Arr(MapSeq(splitIntoSentences(sanitizedText),
                   LAMBDA s : [text |-> Str(s),
                               score |-> documentSentiment.score,
                               magnitude |-> documentSentiment.magnitude,
                               beginOffset |-> Num(indexOf(sanitizedText, s))]))
          ELSE Undefined
    IN Returned([documentSentiment |-> documentSentiment,
                 sentences |-> sentences,
                 originalText |-> request.text,
                 language |-> request.language])

\* analyzeSentiment locating the fallback sentences in the request text
SentimentResponse_offsetInRequestText(request, sanitizedText, apiResponse) ==
  IF ~Truthy(Get(apiResponse, "documentSentiment"))
    THEN Thrown(JsError("Cannot read properties of undefined"))
  ELSE
    LET documentSentiment ==
          [score |-> apiResponse.documentSentiment.score,
           magnitude |-> apiResponse.documentSentiment.magnitude]
        apiSentences == Get(apiResponse, "sentences")
        sentences ==
          IF Truthy(request.analyzeSentences) /\ Truthy(apiSentences)
            THEN Arr(MapSeq(apiSentences.v,
                   LAMBDA s : [text |-> s.text.content,
                               score |-> s.sentiment.score,
                               magnitude |-> s.sentiment.magnitude,
                               beginOffset |-> Get(s.text, "beginOffset")]))
          ELSE IF Truthy(request.analyzeSentences) /\ ~Truthy(apiSentences)
            THEN Arr(MapSeq(splitIntoSentences(sanitizedText),
                   LAMBDA s : [text |-> Str(s),
                               score |-> documentSentiment.score,
                               magnitude |-> documentSentiment.magnitude,
                               beginOffset |-> Num(indexOf(request.text.v, s))]))
          ELSE Undefined
    IN Returned([documentSentiment |-> documentSentiment,
                 sentences |-> sentences,
                 originalText |-> request.text,
                 language |-> OrElse(request.language, VIETNAMESE)])

SentimentResponse(request, sanitizedText, apiResponse) ==
  IF ~Truthy(Get(apiResponse, "documentSentiment"))
    THEN Thrown(JsError("Cannot read properties of undefined"))
  ELSE
    LET documentSentiment ==
          [score |-> apiResponse.documentSentiment.score,
           magnitude |-> apiResponse.documentSentiment.magnitude]
        apiSentences == Get(apiResponse, "sentences")
        sentences ==
          IF Truthy(request.analyzeSentences) /\ Truthy(apiSentences)
            THEN Arr(MapSeq(apiSentences.v,
                   LAMBDA s : [text |-> s.text.content,
                               score |-> s.sentiment.score,
                               magnitude |-> s.sentiment.magnitude,
                               beginOffset |-> Get(s.text, "beginOffset")]))
          ELSE IF Truthy(request.analyzeSentences) /\ ~Truthy(apiSentences)
            THEN Arr(MapSeq(splitIntoSentences(sanitizedText),
                   LAMBDA s : [text |-> Str(s),
                               score |-> documentSentiment.score,
                               magnitude |-> documentSentiment.magnitude,
                               beginOffset |-> Num(indexOf(sanitizedText, s))]))
          ELSE Undefined
    IN Returned([documentSentiment |-> documentSentiment,
                 sentences |-> sentences,
                 originalText |-> request.text,
                 language |-> OrElse(request.language, VIETNAMESE)])

\* Array.prototype.sort with (a, b) => b.confidence - a.confidence: a stable
\* sort, so equal confidences keep their order
RECURSIVE InsertByConfidence(_, _)
InsertByConfidence(sorted, c) ==
  IF sorted = <<>> THEN <<c>>
  ELSE IF Head(sorted).confidence.v >= c.confidence.v
    THEN <<Head(sorted)>> \o InsertByConfidence(Tail(sorted), c)
  ELSE <<c>> \o sorted

RECURSIVE SortByConfidence(_)
SortByConfidence(s) ==
  IF s = <<>> THEN <<>>
  ELSE InsertByConfidence(SortByConfidence(SubSeq(s, 1, Len(s) - 1)), s[Len(s)])

\* Array.prototype.includes
Includes(array, x) == \E i \in 1..Len(array.v) : array.v[i] = x

\* extractEntities returning the kept entities ordered by confidence
EntityResponse_sortedByConfidence(request, sanitizedText, apiResponse) ==
  IF ~Truthy(Get(apiResponse, "entities"))
    THEN Thrown(JsError("Cannot read properties of undefined"))
  ELSE
    LET entities ==
          MapSeq(apiResponse.entities.v,
            LAMBDA e : [name |-> e.name,
                        type |-> e.type,
                        confidence |-> OrElse(e.salience, Num(FullConfidence)),
                        mentions |-> Arr(MapSeq(e.mentions.v,
                           LAMBDA m : [text |-> m.text.content,
                                       beginOffset |-> m.text.beginOffset,
                                       type |-> m.type])),
                        metadata |-> e.metadata])
        Keep(entity) ==
          /\ IF Truthy(request.entityTypes)
               THEN Includes(request.entityTypes, entity.type)
               ELSE TRUE
          /\ IF Truthy(request.minConfidence)
               THEN entity.confidence.v >= request.minConfidence.v
               ELSE TRUE
    IN Returned([entities |-> Arr(SortByConfidence(SelectSeq(entities, Keep))),
                 originalText |-> request.text,
                 language |-> OrElse(request.language, VIETNAMESE)])

EntityResponse(request, sanitizedText, apiResponse) ==
  IF ~Truthy(Get(apiResponse, "entities"))
    THEN Thrown(JsError("Cannot read properties of undefined"))
  ELSE
    LET entities ==
          MapSeq(apiResponse.entities.v,
            LAMBDA e : [name |-> e.name,
                        type |-> e.type,
                        confidence |-> OrElse(e.salience, Num(FullConfidence)),
                        mentions |-> Arr(MapSeq(e.mentions.v,
                           LAMBDA m : [text |-> m.text.content,
                                       beginOffset |-> m.text.beginOffset,
                                       type |-> m.type])),
                        metadata |-> e.metadata])
        Keep(entity) ==
          /\ IF Truthy(request.entityTypes)
               THEN Includes(request.entityTypes, entity.type)
               ELSE TRUE
          /\ IF Truthy(request.minConfidence)
               THEN entity.confidence.v >= request.minConfidence.v
               ELSE TRUE
    IN Returned([entities |-> Arr(SelectSeq(entities, Keep)),
                 originalText |-> request.text,
                 language |-> OrElse(request.language, VIETNAMESE)])

\* array.slice(0, end)
Slice0(s, end) ==
  IF end >= 0 THEN SubSeq(s, 1, Min(end, Len(s)))
  ELSE SubSeq(s, 1, Max(Len(s) + end, 0))

ClassificationResponse(request, sanitizedText, apiResponse) ==
  IF ~Truthy(Get(apiResponse, "categories"))
    THEN Thrown(JsError("Cannot read properties of undefined"))
  ELSE
    LET mapped ==
          MapSeq(apiResponse.categories.v,
            LAMBDA c : [name |-> c.name,
                        confidence |-> OrElse(c.confidence, Num(FullConfidence))])
        Keep(c) ==
          IF Truthy(request.minConfidence)
            THEN c.confidence.v >= request.minConfidence.v
            ELSE TRUE
        categories == SortByConfidence(SelectSeq(mapped, Keep))
    IN Returned([categories |->
                   Arr(IF Truthy(request.maxCategories)
                         THEN Slice0(categories, request.maxCategories.v)
                         ELSE categories),
                 originalText |-> request.text,
                 language |-> OrElse(request.language, VIETNAMESE)])

Response(op, request, sanitizedText, apiResponse) ==
  CASE op = "analyzeSentiment" ->
         SentimentResponse(request, sanitizedText, apiResponse)
    [] op = "extractEntities" ->
         EntityResponse(request, sanitizedText, apiResponse)
    [] op = "classifyText" ->
         ClassificationResponse(request, sanitizedText, apiResponse)

\* ------------------------------------------------- the calls in flight
\* Every call records inits, the number of times it has called
\* initializeNlpClient, and invoked, the provider-client methods it has invoked.
Idle == [pc |-> "idle"]

AwaitingInit(op, request) ==
  [pc |-> "awaitInit", op |-> op, req |-> request, inits |-> 1,
   invoked |-> <<>>]

AwaitingProvider(op, request, inits, apiRequest, handle) ==
  [pc |-> "awaitProvider", op |-> op, req |-> request, inits |-> inits,
   invoked |-> <<Method(op)>>, sent |-> apiRequest, handle |-> handle]

\* A settled call.  outcome and value are what the caller's promise holds;
\* sent is the apiRequest the call passed to the provider and received the
\* apiResponse it got.  stage and failure record where a rejection arose and
\* what was thrown there.
Settled(c, outcome, value, stage, failure) ==
  [pc |-> "done", op |-> c.op, req |-> c.req, inits |-> c.inits,
   invoked |-> c.invoked, sent |-> Get(c, "sent"),
   received |-> Get(c, "received"), outcome |-> outcome, value |-> value,
   stage |-> stage, failure |-> failure]

\* a call that has not suspended yet
Entered(op, request) ==
  [op |-> op, req |-> request, inits |-> 0, invoked |-> <<>>]

\* An operation from its validation step to the provider invocation, run
\* without suspension once this.client is set.
Dispatch_validateAfterInvoke(c, cl, cfg) ==
  LET validationError == validateNlpRequest(c.req) IN
  IF Truthy(validationError)
    THEN Settled([c EXCEPT !.invoked = <<Method(c.op)>>], "rejected",
                 validationError, "validate", validationError)
    ELSE AwaitingProvider(c.op, c.req, c.inits,
           ApiRequest(c.op, c.req, sanitizeText(c.req.text.v), cfg), cl)

Dispatch(c, cl, cfg) ==
  LET validationError == validateNlpRequest(c.req) IN
  IF Truthy(validationError)
    THEN Settled(c, "rejected", validationError, "validate", validationError)
    ELSE AwaitingProvider(c.op, c.req, c.inits,
           ApiRequest(c.op, c.req, sanitizeText(c.req.text.v), cfg), cl)

\* init() up to its first suspension
InitStart_unguarded(cl) == AwaitingInit("init", Undefined)

InitStart(cl) ==
  IF cl = 0
    THEN AwaitingInit("init", Undefined)
    ELSE Settled(Entered("init", Undefined), "resolved", Undefined, "none",
                 Undefined)

\* an operation up to its first suspension
OpStart(op, request, cl, cfg) ==
  IF cl = 0
    THEN AwaitingInit(op, request)
    ELSE Dispatch(Entered(op, request), cl, cfg)

\* the call after its  await initializeNlpClient(this.config)  has resolved
\* and this.client holds the new handle
AfterInit(c, handle, cfg) ==
  IF c.op = "init"
    THEN Settled(c, "resolved", Undefined, "none", Undefined)
    ELSE Dispatch(c, handle, cfg)

\* the call after initializeNlpClient has rejected with failure
AfterInitFailure(c, failure) ==
  IF c.op = "init"
    THEN Settled(c, "rejected",
                 formatError(failure, SERVICE_UNAVAILABLE,
                             Str("Failed to initialize NLP client.")),
                 "init", failure)
    ELSE Settled(c, "rejected", failure, "init", failure)

\* the call after the provider-client method has resolved with apiResponse
AfterProvider(c, apiResponse) ==
  LET r == Response(c.op, c.req, c.sent.document.content.v, apiResponse)
      got == [received |-> apiResponse] @@ c
  IN IF r.threw
       THEN Settled(got, "rejected",
                    formatError(r.error, UNKNOWN_ERROR, FailureMessage(c.op)),
                    "reshape", r.error)
       ELSE Settled(got, "resolved", r.response, "none", Undefined)

\* the call invoking the provider-client method a second time after its
\* first rejection
AfterProviderFailure_retriesOnce(c, failure) ==
  IF Len(c.invoked) < 2
    THEN [c EXCEPT !.invoked = Append(@, Method(c.op))]
    ELSE Settled(c, "rejected",
                 formatError(failure, UNKNOWN_ERROR, FailureMessage(c.op)),
                 "provider", failure)

\* the call after the provider-client method has rejected with failure
AfterProviderFailure(c, failure) ==
  Settled(c, "rejected",
          formatError(failure, UNKNOWN_ERROR, FailureMessage(c.op)),
          "provider", failure)

\* ------------------------------------------------------ data-pipeline.ts
\* Array.isArray(x)
IsArray(x) == x.t = "object" /\ "class" \in DOMAIN x /\ x.class = "Array"

\* !x  for a value whose string content is a sequence of characters
Falsy(x) == IF x.t = "string" THEN Len(x.v) = 0 ELSE ~Truthy(x)

\* encodeURIComponent of one character, for the characters of Ingredients:
\* letters stay, a space and an ampersand are escaped
EncodedCharacter(c) ==
  CASE c = " " -> <<"%", "2", "0">>
    [] c = "&" -> <<"%", "2", "6">>
    [] OTHER   -> <<c>>

RECURSIVE encodeURIComponent(_)
encodeURIComponent(s) ==
  IF s = <<>> THEN <<>>
  ELSE EncodedCharacter(Head(s)) \o encodeURIComponent(Tail(s))

INVALID_INGREDIENT ==
  JsError("Invalid ingredient provided. Ingredient must be a non-empty string.")

INVALID_STRUCTURE == JsError("Invalid response structure from TheMealDB API")

\* axios.isAxiosError(error)
isAxiosError(error) ==
  error.t = "object" /\ Get(error, "isAxiosError") = Bool(TRUE)

\* what the catch block of fetchMealsByIngredient throws for error
Rethrown(error) ==
  IF isAxiosError(error)
    THEN IF Truthy(Get(error, "response"))
           THEN [t |-> "object", class |-> "Error",
                 message |-> Str(<<"API Error: ", error.response.status.v,
                                   " - ", error.response.statusText.v>>)]
         ELSE IF Truthy(Get(error, "request"))
           THEN JsError("Network Error: No response received from TheMealDB API")
         ELSE [t |-> "object", class |-> "Error",
               message |-> Str(<<"Request Error: ", error.message.v>>)]
    ELSE error

\* the axios.get call of fetchMealsByIngredient(ingredient)
HttpGet(ingredient) ==
  [url |-> <<"https://www.themealdb.com/api/json/v1/1/filter.php?i=">>
             \o encodeURIComponent(ingredient.v),
   timeout |-> 10000]

\* fetchMealsByIngredient sending its request whatever the ingredient
FetchStart_unvalidated(ingredient) ==
  [pc |-> "awaitHttp", op |-> "fetchMealsByIngredient", req |-> ingredient,
   inits |-> 0, invoked |-> <<"axios.get">>,
   sent |-> [url |-> <<"https://www.themealdb.com/api/json/v1/1/filter.php?i=">>,
             timeout |-> 10000]]

\* fetchMealsByIngredient(ingredient) up to its first suspension
FetchStart(ingredient) ==
  IF Falsy(ingredient) \/ ingredient.t # "string"
    THEN Settled(Entered("fetchMealsByIngredient", ingredient), "rejected",
                 Rethrown(INVALID_INGREDIENT), "validate", INVALID_INGREDIENT)
    ELSE [pc |-> "awaitHttp", op |-> "fetchMealsByIngredient",
          req |-> ingredient, inits |-> 0, invoked |-> <<"axios.get">>,
          sent |-> HttpGet(ingredient)]

\* the call after axios.get has resolved with response
AfterHttp(c, response) ==
  LET data == Get(response, "data")
      got == [received |-> response] @@ c
  IN IF ~Truthy(data) \/ ~Truthy(Opt(data, "meals"))
       THEN Settled(got, "resolved", Null, "none", Undefined)
     ELSE IF ~IsArray(data.meals)
       THEN Settled(got, "rejected", Rethrown(INVALID_STRUCTURE), "reshape",
                    INVALID_STRUCTURE)
     ELSE Settled(got, "resolved", data.meals, "none", Undefined)

\* the call after axios.get has rejected with error
AfterHttpFailure(c, error) ==
  Settled(c, "rejected", Rethrown(error), "provider", error)

processMeals(meals) == IF ~Truthy(meals) THEN Null ELSE meals

\* ------------------------------------------------------------- actions
CallInit(i) ==
  /\ calls[i].pc = "idle"
  /\ calls' = [calls EXCEPT ![i] = InitStart(client)]
  /\ UNCHANGED <<client, created, config, resolver>>

CallOperation(i, op, request) ==
  /\ calls[i].pc = "idle"
  /\ calls' = [calls EXCEPT ![i] = OpStart(op, request, client, config)]
  /\ UNCHANGED <<client, created, config, resolver>>

\* a direct call of the exported validateNlpRequest, which returns at once
CallValidate(i, request) ==
  /\ calls[i].pc = "idle"
  /\ calls' = [calls EXCEPT ![i] =
                 Settled(Entered("validateNlpRequest", request), "returned",
                         validateNlpRequest(request), "none", Undefined)]
  /\ UNCHANGED <<client, created, config, resolver>>

\* an initialization that leaves a handle already stored in place
InitResolves_keepsFirstHandle(i) ==
  /\ calls[i].pc = "awaitInit"
  /\ created' = created + 1
  /\ client' = IF client = 0 THEN created + 1 ELSE client
  /\ calls' = [calls EXCEPT ![i] = AfterInit(calls[i], created + 1, config)]
  /\ UNCHANGED <<config, resolver>>

InitResolves(i) ==
  /\ calls[i].pc = "awaitInit"
  /\ created' = created + 1
  /\ client' = created + 1
  /\ calls' = [calls EXCEPT ![i] = AfterInit(calls[i], created + 1, config)]
  /\ UNCHANGED <<config, resolver>>

\* a failed initialization that stores a handle all the same
InitRejects_storesHandle(i, failure) ==
  /\ calls[i].pc = "awaitInit"
  /\ created' = created + 1
  /\ client' = created + 1
  /\ calls' = [calls EXCEPT ![i] = AfterInitFailure(calls[i], failure)]
  /\ UNCHANGED <<config, resolver>>

InitRejects(i, failure) ==
  /\ calls[i].pc = "awaitInit"
  /\ calls' = [calls EXCEPT ![i] = AfterInitFailure(calls[i], failure)]
  /\ UNCHANGED <<client, created, config, resolver>>

ProviderResolves(i, apiResponse) ==
  /\ calls[i].pc = "awaitProvider"
  /\ calls' = [calls EXCEPT ![i] = AfterProvider(calls[i], apiResponse)]
  /\ UNCHANGED <<client, created, config, resolver>>

ProviderRejects(i, failure) ==
  /\ calls[i].pc = "awaitProvider"
  /\ calls' = [calls EXCEPT ![i] = AfterProviderFailure(calls[i], failure)]
  /\ UNCHANGED <<client, created, config, resolver>>

\* a direct call of the exported formatError, which returns at once
CallFormatError(i, error, code, message) ==
  /\ calls[i].pc = "idle"
  /\ calls' = [calls EXCEPT ![i] =
                 Settled(Entered("formatError",
                                 [error |-> error, code |-> code,
                                  message |-> message]),
                         "returned", formatError(error, code, message),
                         "none", Undefined)]
  /\ UNCHANGED <<client, created, config, resolver>>

\* the caller takes the settled result
Return(i) ==
  /\ calls[i].pc = "done"
  /\ calls' = [calls EXCEPT ![i] = Idle]
  /\ UNCHANGED <<client, created, config, resolver>>

\* process.env[name] = value, or delete process.env[name] for undefined
SetEnv(name, value) ==
  /\ envChanges < MaxEnvChanges
  /\ env[name] # value
  /\ env' = [env EXCEPT ![name] = value]
  /\ envChanges' = envChanges + 1
  /\ UNCHANGED <<facade, presets, instances, nlpServiceInstance, result>>

\* What result records of a call: its argument, the environment and the
\* exported objects it found, the object it returned or stored as config,
\* that object's content on return, for an NlpService its number, and
\* whether the call constructed it.
Outcome(op, arg, e, before, cfg, after, instance, made) ==
  [op |-> op, arg |-> arg, env |-> e, before |-> before, config |-> cfg,
   value |-> Deref(cfg, after), instance |-> instance, made |-> made]

\* a direct call of the exported loadConfigFromEnv
CallLoadConfigFromEnv ==
  LET r == loadConfigFromEnv(env, presets) IN
  /\ presets' = r.presets
  /\ result' = Outcome("loadConfigFromEnv", Undefined, env, presets,
                       r.config, r.presets, 0, FALSE)
  /\ UNCHANGED <<facade, env, envChanges, instances, nlpServiceInstance>>

\* new NlpService(serviceConfig)
Construct(serviceConfig) ==
  LET r == NlpServiceConstructor(serviceConfig, env, presets) IN
  /\ Len(instances) < MaxInstances
  /\ presets' = r.presets
  /\ instances' = Append(instances, r.config)
  /\ result' = Outcome("new NlpService", serviceConfig, env, presets,
                       r.config, r.presets, Len(instances) + 1, TRUE)
  /\ UNCHANGED <<facade, env, envChanges, nlpServiceInstance>>

\* getNlpService(cfg)
CallGetNlpService(cfg) ==
  LET r == getNlpService(cfg, nlpServiceInstance, Len(instances), env, presets)
      all == IF r.constructed THEN Append(instances, r.config) ELSE instances
  IN /\ r.constructed => Len(instances) < MaxInstances
     /\ presets' = r.presets
     /\ instances' = all
     /\ nlpServiceInstance' = r.instance
     /\ result' = Outcome("getNlpService", cfg, env, presets,
                          all[r.instance], r.presets, r.instance,
                          r.constructed)
     /\ UNCHANGED <<facade, env, envChanges>>

CallFetchMealsByIngredient(i, ingredient) ==
  /\ calls[i].pc = "idle"
  /\ calls' = [calls EXCEPT ![i] = FetchStart(ingredient)]
  /\ UNCHANGED <<client, created, config, resolver>>

HttpResolves(i, response) ==
  /\ calls[i].pc = "awaitHttp"
  /\ calls' = [calls EXCEPT ![i] = AfterHttp(calls[i], response)]
  /\ UNCHANGED <<client, created, config, resolver>>

HttpRejects(i, error) ==
  /\ calls[i].pc = "awaitHttp"
  /\ calls' = [calls EXCEPT ![i] = AfterHttpFailure(calls[i], error)]
  /\ UNCHANGED <<client, created, config, resolver>>

\* a call of processMeals, which returns at once
CallProcessMeals(i, meals) ==
  /\ calls[i].pc = "idle"
  /\ calls' = [calls EXCEPT ![i] =
                 Settled(Entered("processMeals", meals), "returned",
                         processMeals(meals), "none", Undefined)]
  /\ UNCHANGED <<client, created, config, resolver>>

\* -------------------------------------------------------------- inputs
Alphabet == {"a", " ", "<", ">"}

Texts == UNION {[1..n -> Alphabet] : n \in 0..MaxTextLen}

Request(text, language, timeoutMs) ==
  [t |-> "object", text |-> text, language |-> language,
   timeoutMs |-> timeoutMs, analyzeSentences |-> Undefined,
   entityTypes |-> Undefined, minConfidence |-> Undefined,
   maxCategories |-> Undefined]

\* requests that vary in the fields validateNlpRequest reads
BaseRequests ==
  {Null} \cup
  {Request(text, language, timeoutMs) :
     text \in {Null} \cup {Str(s) : s \in Texts},
     language \in {Undefined, VIETNAMESE, ENGLISH, Str("fr"), Str("")},
     timeoutMs \in {Undefined, Num(-1), Num(0), Num(30000)}}

\* a valid request whose text sanitizeText changes, and an invalid one
FewRequests ==
  {Request(Str(<<"<", "a">>), VIETNAMESE, Undefined),
   Request(Str(<<" ">>), ENGLISH, Undefined)}

\* classification requests that vary in what the reshaping reads
ClassificationRequests ==
  {[Request(Str(<<"a">>), Undefined, Undefined)
      EXCEPT !.maxCategories = maxCategories, !.minConfidence = minConfidence] :
     maxCategories \in {Undefined, Num(0), Num(1), Num(2)},
     minConfidence \in {Undefined, Num(0), Num(6), Num(9)}}

\* what initializeNlpClient or a provider-client method may throw: an Error,
\* an Error that carries a code (a gRPC ServiceError), a string
Failures ==
  {JsError("socket hang up"),
   [t |-> "object", class |-> "Error", code |-> Num(14),
    message |-> Str("14 UNAVAILABLE")],
   Str("quota exceeded")}

Malformed == [t |-> "object"]

\* what formatError may be given as error: the failures above, values that
\* are neither objects nor strings, an empty string, an Error with an empty
\* message, an object with a code but no message, an NlpError
ErrorInputs ==
  Failures \cup
  {Undefined, Null, Num(0), Str(""), JsError(""),
   [t |-> "object", class |-> "Object", code |-> Num(14)],
   NlpError(INVALID_INPUT, Str("Invalid or empty text provided."))}

\* what formatError may be given as code (undefined for none) and message
Codes == {Undefined, SERVICE_UNAVAILABLE, UNKNOWN_ERROR}
Messages == {Undefined, Str(""), Str("Failed to analyze sentiment.")}

FewResponses(op) ==
  CASE op = "analyzeSentiment" ->
         {[t |-> "object",
           documentSentiment |->
             [t |-> "object", score |-> Num(8), magnitude |-> Num(9)],
           sentences |-> Undefined],
          Malformed}
    [] op = "extractEntities" ->
         {[t |-> "object",
           entities |-> Arr(<<
             [name |-> Str("pho bo"), type |-> Str("FOOD"),
              salience |-> Num(9),
              mentions |-> Arr(<<
                [text |-> [content |-> Str("pho bo"), beginOffset |-> Num(0)],
                 type |-> Str("COMMON")]>>),
              metadata |-> Undefined]>>)],
          Malformed}
    [] op = "classifyText" ->
         {[t |-> "object",
           categories |-> Arr(<<
             [name |-> Str("/Food & Drink"), confidence |-> Num(9)]>>)],
          Malformed}

Confidences == {Undefined, Num(0), Num(6), Num(9)}

\* every classification result of up to MaxCats categories
ClassificationResponses ==
  {[t |-> "object",
    categories |-> Arr([i \in 1..Len(f) |->
                     [name |-> Str("/" \o ToString(i)), confidence |-> f[i]]])] :
     f \in UNION {[1..n -> Confidences] : n \in 0..MaxCats}}

\* entity requests that vary in what the filtering of a result reads
EntityRequests ==
  {[Request(Str(<<"a">>), Undefined, Undefined)
      EXCEPT !.entityTypes = entityTypes, !.minConfidence = minConfidence] :
     entityTypes \in {Undefined, Arr(<<>>), Arr(<<Str("FOOD")>>)},
     minConfidence \in {Undefined, Num(0), Num(6)}}

\* a salience the provider may state for an entity: none, 0, a value below
\* the nominal range, 0.9
Saliences == {Undefined, Num(0), Num(-5), Num(9)}

\* every entity result of up to MaxEnts entities, named by their position
EntityResponses ==
  {[t |-> "object",
    entities |-> Arr([i \in 1..Len(f) |->
                   [name |-> Str("e" \o ToString(i)), type |-> f[i][1],
                    salience |-> f[i][2],
                    mentions |-> Arr(<<
                      [text |-> [content |-> Str("e" \o ToString(i)),
                                 beginOffset |-> Num(0)],
                       type |-> Str("COMMON")]>>),
                    metadata |-> Undefined]])] :
     f \in UNION {[1..n -> {Str("FOOD"), Str("LOCATION")} \X Saliences] :
                    n \in 0..MaxEnts}}

\* texts of one or more sentences
SentenceTexts ==
  UNION {[1..n -> {"a", "b", ".", " "}] : n \in 0..MaxSentenceTextLen}

\* sentiment requests that vary in text and in analyzeSentences
SentimentRequests ==
  {[Request(Str(text), Undefined, Undefined)
      EXCEPT !.analyzeSentences = analyzeSentences] :
     text \in SentenceTexts,
     analyzeSentences \in {Undefined, Bool(FALSE), Bool(TRUE)}}

\* sentiment results without sentence data, with an empty sentence list and
\* with one sentence
SentimentResponses ==
  {[t |-> "object",
    documentSentiment |->
      [t |-> "object", score |-> Num(8), magnitude |-> Num(9)],
    sentences |-> sentences] :
     sentences \in
       {Undefined, Null, Arr(<<>>),
        Arr(<<[text |-> [content |-> Str(<<"a", ".">>), beginOffset |-> Num(0)],
               sentiment |-> [score |-> Num(5), magnitude |-> Num(5)]]>>)}}

Configs ==
  {[t |-> "object", provider |-> Str("VERTEX_AI"),
    maxRetries |-> Num(DEFAULT_MAX_RETRIES),
    options |-> [t |-> "object", region |-> Str("asia-southeast1")]],
   [t |-> "object", provider |-> Str("CUSTOM"),
    options |-> [t |-> "object", defaultLanguage |-> ENGLISH]]}

\* an environment with none of the variables set
NoEnvironment == [name \in ENV_VARS |-> Undefined]

\* values a variable of the environment may be given
EnvValues(name) ==
  CASE name = "NLP_SERVICE_PROVIDER" -> {Str("GOOGLE_CLOUD_NLP"), Str("CUSTOM")}
    [] name = "GOOGLE_CLOUD_PROJECT" -> {Str("saigon-signals")}
    [] name = "GOOGLE_CLOUD_REGION" -> {Str("us-central1")}
    [] name = "NLP_API_KEY" -> {Str("key"), Str("")}
    [] name = "NLP_API_ENDPOINT" -> {Str("https://nlp.example")}
    [] name = "NLP_REQUEST_TIMEOUT_MS" -> {Str(<<"5", "0">>), Str(<<"x">>)}
    [] name = "NLP_MAX_RETRIES" -> {Str(<<"0">>)}

\* what a caller may pass as configuration: nothing, an object of its own,
\* one of the exported objects
ConfigArguments ==
  {Undefined} \cup {Owned(c) : c \in Configs}
    \cup {Exported("VERTEX_AI_CONFIG")}

\* what fetchMealsByIngredient may be given: nothing, values that are not
\* strings, the empty string, ingredients
Ingredients ==
  {Undefined, Null, Num(0), Num(5), Bool(TRUE), Arr(<<>>), Str(<<>>),
   Str(<<"a">>), Str(<<"a", " ", "b">>), Str(<<"&">>)}

Meal(id) == [t |-> "object", idMeal |-> Str(id), strMeal |-> Str("Pho")]

MealLists == {Arr(<<>>), Arr(<<Meal("1")>>), Arr(<<Meal("1"), Meal("2")>>)}

\* what axios.get may resolve with: no data, no meals, meals, meals that are
\* not a list
HttpResponses ==
  {[t |-> "object", data |-> Undefined],
   [t |-> "object", data |-> [t |-> "object", meals |-> Null]],
   [t |-> "object", data |-> [t |-> "object", meals |-> Str("none")]]}
  \cup {[t |-> "object", data |-> [t |-> "object", meals |-> meals]] :
          meals \in MealLists}

\* what axios.get may reject with: an AxiosError with a response, with a
\* request only, with neither, and an Error that is not one
HttpFailures ==
  {[t |-> "object", class |-> "Error", isAxiosError |-> Bool(TRUE),
    message |-> Str("Request failed with status code 500"),
    response |-> [t |-> "object", status |-> Num(500),
                  statusText |-> Str("Internal Server Error")]],
   [t |-> "object", class |-> "Error", isAxiosError |-> Bool(TRUE),
    message |-> Str("timeout of 10000ms exceeded"),
    request |-> [t |-> "object"]],
   [t |-> "object", class |-> "Error", isAxiosError |-> Bool(TRUE),
    message |-> Str("Invalid URL")],
   JsError("Network Error")}

\* ------------------------------------------------------ specifications
\* a freshly constructed NlpService: no client, no call made yet
Init ==
  /\ client = 0
  /\ created = 0
  /\ config \in Configs
  /\ calls = [i \in 1..MaxCalls |-> Idle]
  /\ env = NoEnvironment
  /\ envChanges = 0
  /\ presets = Presets
  /\ instances = <<>>
  /\ nlpServiceInstance = 0
  /\ result = Undefined

\* Calls overlap: up to MaxCalls of them are in flight at once.
Next ==
  \E i \in 1..MaxCalls :
    \/ \E op \in Operations, request \in FewRequests :
         CallOperation(i, op, request)
    \/ CallInit(i)
    \/ InitResolves(i)
    \/ \E failure \in Failures : InitRejects(i, failure)
    \/ /\ calls[i].pc = "awaitProvider"
       /\ \E apiResponse \in FewResponses(calls[i].op) :
            ProviderResolves(i, apiResponse)
    \/ \E failure \in Failures : ProviderRejects(i, failure)
    \/ Return(i)

Spec == Init /\ [][Next]_vars

\* One caller that awaits each call before making the next, with requests
\* that vary in text, language and timeout.
NextSeq ==
  \/ \E op \in Operations, request \in BaseRequests :
       CallOperation(1, op, request)
  \/ CallInit(1)
  \/ \E request \in BaseRequests \cup {Undefined} : CallValidate(1, request)
  \/ InitResolves(1)
  \/ \E failure \in Failures : InitRejects(1, failure)
  \/ /\ calls[1].pc = "awaitProvider"
     /\ \E apiResponse \in FewResponses(calls[1].op) :
          ProviderResolves(1, apiResponse)
  \/ \E failure \in Failures : ProviderRejects(1, failure)
  \/ Return(1)

SpecSeq == Init /\ [][NextSeq]_vars

\* One caller that awaits each call, with requests and provider results that
\* vary in what the reshaping of a result reads.
NextReshape ==
  \/ \E request \in ClassificationRequests :
       CallOperation(1, "classifyText", request)
  \/ CallInit(1)
  \/ InitResolves(1)
  \/ \E failure \in Failures : InitRejects(1, failure)
  \/ /\ calls[1].pc = "awaitProvider"
     /\ \E apiResponse \in ClassificationResponses :
          ProviderResolves(1, apiResponse)
  \/ \E failure \in Failures : ProviderRejects(1, failure)
  \/ Return(1)

SpecReshape == Init /\ [][NextReshape]_vars

\* One caller that awaits each call, with entity requests and provider
\* results that vary in what the filtering of the entities reads.
NextEntities ==
  \/ \E request \in EntityRequests :
       CallOperation(1, "extractEntities", request)
  \/ CallInit(1)
  \/ InitResolves(1)
  \/ \E failure \in Failures : InitRejects(1, failure)
  \/ /\ calls[1].pc = "awaitProvider"
     /\ \E apiResponse \in EntityResponses :
          ProviderResolves(1, apiResponse)
  \/ \E failure \in Failures : ProviderRejects(1, failure)
  \/ Return(1)

SpecEntities == Init /\ [][NextEntities]_vars

\* One caller that awaits each call, with sentiment requests that vary in
\* text and analyzeSentences and provider results with and without sentences.
NextSentences ==
  \/ \E request \in SentimentRequests :
       CallOperation(1, "analyzeSentiment", request)
  \/ CallInit(1)
  \/ InitResolves(1)
  \/ \E failure \in Failures : InitRejects(1, failure)
  \/ /\ calls[1].pc = "awaitProvider"
     /\ \E apiResponse \in SentimentResponses :
          ProviderResolves(1, apiResponse)
  \/ \E failure \in Failures : ProviderRejects(1, failure)
  \/ Return(1)

SpecSentences == Init /\ [][NextSentences]_vars

\* formatError called on values of every kind, and called again on what it
\* returned.
NextErrors ==
  \/ \E error \in ErrorInputs, code \in Codes, message \in Messages :
       CallFormatError(1, error, code, message)
  \/ /\ calls[1].pc = "done"
     /\ \E code \in Codes, message \in Messages :
          CallFormatError(2, calls[1].value, code, message)
  \/ \E i \in 1..2 : Return(i)

SpecErrors == Init /\ [][NextErrors]_vars

\* Construction of NlpService objects, directly and through getNlpService,
\* and calls of loadConfigFromEnv, while the environment changes.
NextConfig ==
  \/ \E name \in ENV_VARS :
       \E value \in EnvValues(name) \cup {Undefined} : SetEnv(name, value)
  \/ CallLoadConfigFromEnv
  \/ \E serviceConfig \in ConfigArguments : Construct(serviceConfig)
  \/ \E cfg \in ConfigArguments : CallGetNlpService(cfg)

SpecConfig == Init /\ [][NextConfig]_vars

\* Calls of fetchMealsByIngredient and processMeals, with ingredients of
\* every kind and every kind of answer from TheMealDB.
NextMeals ==
  \E i \in 1..MaxCalls :
    \/ \E ingredient \in Ingredients : CallFetchMealsByIngredient(i, ingredient)
    \/ \E response \in HttpResponses : HttpResolves(i, response)
    \/ \E error \in HttpFailures : HttpRejects(i, error)
    \/ \E meals \in MealLists \cup {Null, Undefined} : CallProcessMeals(i, meals)
    \/ Return(i)

SpecMeals == Init /\ [][NextMeals]_vars

\* -------------------------------------------------------------- claims
Slots == 1..MaxCalls

\* a settled call of one of the three operations
SettledOperation(i) == calls[i].pc = "done" /\ calls[i].op \in Operations

\* a direct call of validateNlpRequest that has returned
Validated(i) == calls[i].pc = "done" /\ calls[i].op = "validateNlpRequest"

\* a string with at least one character that is not whitespace
HasVisibleText(text) ==
  text.t = "string" /\ \E k \in 1..Len(text.v) : text.v[k] # " "

\* a language value that is neither absent nor the empty string, and is
\* neither 'vi' nor 'en'
ForeignLanguage(language) ==
  language.t = "string" /\ language.v \notin {"", "vi", "en"}

\* C1, as stated: an operation given a request that validateNlpRequest
\* rejects always rejects with that validation error and invokes no
\* provider-client method.
C1_RejectsWithValidationError ==
  \A i \in Slots :
    SettledOperation(i) /\ Truthy(validateNlpRequest(calls[i].req)) =>
      /\ calls[i].outcome = "rejected"
      /\ calls[i].value = validateNlpRequest(calls[i].req)
      /\ calls[i].invoked = <<>>

\* C1, amended: an operation given a request that validateNlpRequest rejects
\* invokes no provider-client method and rejects; it rejects with that
\* validation error unless the client initialization that the call itself
\* started has failed, which ends the call before validation.
C1_NoProviderCallOnInvalidRequest ==
  \A i \in Slots :
    SettledOperation(i) /\ Truthy(validateNlpRequest(calls[i].req)) =>
      /\ calls[i].outcome = "rejected"
      /\ calls[i].invoked = <<>>
      /\ calls[i].sent = Undefined
      /\ IF calls[i].stage = "init"
           THEN calls[i].inits = 1
           ELSE calls[i].value = validateNlpRequest(calls[i].req)

\* C1 happens: an operation has rejected a whitespace-only text with
\* INVALID_INPUT after initializing the client itself.
C1_Witness ==
  \E i \in Slots :
    /\ SettledOperation(i)
    /\ calls[i].req # Null
    /\ calls[i].req.text = Str(<<" ", " ">>)
    /\ calls[i].inits = 1
    /\ calls[i].outcome = "rejected"
    /\ calls[i].value.code = INVALID_INPUT
    /\ calls[i].invoked = <<>>

\* C2: the originalText of every response is the request's text, unchanged.
C2_OriginalTextIsRequestText ==
  \A i \in Slots :
    SettledOperation(i) /\ calls[i].outcome = "resolved" =>
      calls[i].value.originalText = calls[i].req.text

\* C2 happens: a response echoes a text with an angle bracket and a leading
\* blank that the provider did not receive.
C2_Witness ==
  \E i \in Slots :
    /\ SettledOperation(i)
    /\ calls[i].outcome = "resolved"
    /\ calls[i].req.text \in {Str(<<" ", "a">>), Str(<<"<", "a">>)}
    /\ calls[i].sent.document.content = Str(<<"a">>)
    /\ calls[i].value.originalText = calls[i].req.text

\* C3, as stated: validateNlpRequest answers UNSUPPORTED_LANGUAGE for every
\* request whose language is a value other than 'vi' and 'en'.
C3_AnyOtherLanguageUnsupported ==
  \A i \in Slots :
    /\ Validated(i)
    /\ calls[i].req.t = "object"
    /\ calls[i].req.language # Undefined
    /\ calls[i].req.language \notin {Str("vi"), Str("en")}
    => Get(calls[i].value, "code") = UNSUPPORTED_LANGUAGE

\* C3, amended: validateNlpRequest answers UNSUPPORTED_LANGUAGE for every
\* request with a valid text and a non-empty language other than 'vi' and
\* 'en'.
C3_ForeignLanguageUnsupported ==
  \A i \in Slots :
    /\ Validated(i)
    /\ calls[i].req.t = "object"
    /\ HasVisibleText(calls[i].req.text)
    /\ ForeignLanguage(calls[i].req.language)
    => Get(calls[i].value, "code") = UNSUPPORTED_LANGUAGE

\* C3 happens: a request with a valid text and language 'fr' was answered
\* UNSUPPORTED_LANGUAGE.
C3_Witness ==
  \E i \in Slots :
    /\ Validated(i)
    /\ calls[i].req.t = "object"
    /\ HasVisibleText(calls[i].req.text)
    /\ calls[i].req.language = Str("fr")
    /\ Get(calls[i].value, "code") = UNSUPPORTED_LANGUAGE

NonPositive(timeoutMs) == timeoutMs.t = "number" /\ timeoutMs.v <= 0

\* C4, as stated: validateNlpRequest answers INVALID_INPUT for every request
\* with timeoutMs <= 0.
C4_NonPositiveTimeoutInvalid ==
  \A i \in Slots :
    /\ Validated(i)
    /\ calls[i].req.t = "object"
    /\ NonPositive(calls[i].req.timeoutMs)
    => Get(calls[i].value, "code") = INVALID_INPUT

\* C4, amended: validateNlpRequest answers INVALID_INPUT for every request
\* with timeoutMs <= 0, except one with a valid text and a non-empty
\* language other than 'vi' and 'en', which it answers UNSUPPORTED_LANGUAGE.
C4_NonPositiveTimeoutRejected ==
  \A i \in Slots :
    /\ Validated(i)
    /\ calls[i].req.t = "object"
    /\ NonPositive(calls[i].req.timeoutMs)
    => Get(calls[i].value, "code") =
         IF HasVisibleText(calls[i].req.text)
              /\ ForeignLanguage(calls[i].req.language)
           THEN UNSUPPORTED_LANGUAGE
           ELSE INVALID_INPUT

\* C4 happens: a request with valid text and language and a timeout of 0 was
\* answered with the timeout error.
C4_Witness ==
  \E i \in Slots :
    /\ Validated(i)
    /\ calls[i].req.t = "object"
    /\ calls[i].req.timeoutMs = Num(0)
    /\ HasVisibleText(calls[i].req.text)
    /\ calls[i].req.language = VIETNAMESE
    /\ Get(calls[i].value, "message") = Str("Timeout must be a positive number")

\* C5: validateNlpRequest answers with the error of the first failing check
\* in the order request, text, language, timeout (the language check applies
\* to a language that is present, which the code reads as non-empty): a
\* request with an invalid text gets the text error whatever its language,
\* and a request that fails no check gets no error.
C5_FirstFailingCheck ==
  \A i \in Slots :
    Validated(i) =>
      LET request == calls[i].req
          error == calls[i].value
      IN CASE request.t # "object" ->
                /\ Get(error, "code") = INVALID_INPUT
                /\ Get(error, "message")
                     = Str("Request cannot be null or undefined")
           [] request.t = "object" /\ ~HasVisibleText(request.text) ->
                /\ Get(error, "code") = INVALID_INPUT
                /\ Get(error, "message") = Str("Text must be a non-empty string")
           [] request.t = "object" /\ HasVisibleText(request.text)
                /\ ForeignLanguage(request.language) ->
                Get(error, "code") = UNSUPPORTED_LANGUAGE
           [] request.t = "object" /\ HasVisibleText(request.text)
                /\ ~ForeignLanguage(request.language)
                /\ request.timeoutMs # Undefined
                /\ ~(request.timeoutMs.t = "number" /\ request.timeoutMs.v > 0) ->
                /\ Get(error, "code") = INVALID_INPUT
                /\ Get(error, "message")
                     = Str("Timeout must be a positive number")
           [] OTHER -> error = Undefined

\* C5 happens: a request with both an invalid text and an unsupported
\* language was answered with the text error.
C5_Witness ==
  \E i \in Slots :
    /\ Validated(i)
    /\ calls[i].req.t = "object"
    /\ ~HasVisibleText(calls[i].req.text)
    /\ calls[i].req.language = Str("fr")
    /\ Get(calls[i].value, "message") = Str("Text must be a non-empty string")

\* C6, as stated: whatever the interleaving of init() and operation calls,
\* the provider client handle of an instance is created at most once.
C6_ClientCreatedAtMostOnce == created <= 1

\* a step in which init() is called in slot i while the facade is Ready
InitCalledWhenReady(i) ==
  /\ client # 0
  /\ calls[i].pc = "idle"
  /\ calls'[i].pc # "idle"
  /\ calls'[i].op = "init"

\* C7: init() called on a Ready facade completes at once without error,
\* creates no client and leaves the handle as it was; and with calls made one
\* after the other, a facade on which init() has completed is Ready with
\* exactly one client created.
C7_InitIsIdempotent ==
  /\ [][\A i \in Slots :
          InitCalledWhenReady(i) =>
            /\ calls'[i].pc = "done"
            /\ calls'[i].outcome = "resolved"
            /\ calls'[i].inits = 0
            /\ client' = client
            /\ created' = created]_vars
  /\ [](\A i \in Slots :
          calls[i].pc = "done" /\ calls[i].op = "init"
            /\ calls[i].outcome = "resolved" =>
              client = 1 /\ created = 1)

\* C7 happens: an init() call made after the client was created has
\* completed without initializing anything.
C7_Witness ==
  \E i \in Slots :
    /\ calls[i].pc = "done"
    /\ calls[i].op = "init"
    /\ calls[i].outcome = "resolved"
    /\ calls[i].inits = 0
    /\ client = 1
    /\ created = 1

\* C8, as stated: a call whose client initialization failed, be it init() or
\* an operation on an Uninitialized facade, rejects with SERVICE_UNAVAILABLE.
C8_InitFailureIsServiceUnavailable ==
  \A i \in Slots :
    calls[i].pc = "done" /\ calls[i].stage = "init" =>
      /\ calls[i].outcome = "rejected"
      /\ calls[i].value.t = "object"
      /\ Get(calls[i].value, "code") = SERVICE_UNAVAILABLE

\* an object with both a code and a message, which formatError returns as is
Structured(failure) ==
  failure.t = "object" /\ "code" \in DOMAIN failure
    /\ "message" \in DOMAIN failure

Wrapped(failure, code, message) ==
  [t |-> "object", class |-> "Object", code |-> code, message |-> message,
   details |-> failure]

\* C9, as stated: a failure of the provider-client method, or of reshaping
\* its result, reaches the caller as an UNKNOWN_ERROR with the operation's
\* message and the failure as details.
C9_ProviderFailureIsUnknownError ==
  \A i \in Slots :
    SettledOperation(i) /\ calls[i].stage \in {"provider", "reshape"} =>
      /\ calls[i].outcome = "rejected"
      /\ calls[i].value
           = Wrapped(calls[i].failure, UNKNOWN_ERROR, FailureMessage(calls[i].op))

\* C9, amended: a failure of the provider-client method, or of reshaping its
\* result, reaches the caller as an UNKNOWN_ERROR with the operation's message
\* and the failure as details, unless the failure is itself an object with
\* both a code and a message, which reaches the caller unchanged.
C9_ProviderFailureWrappedOrPassed ==
  \A i \in Slots :
    SettledOperation(i) /\ calls[i].stage \in {"provider", "reshape"} =>
      /\ calls[i].outcome = "rejected"
      /\ calls[i].value =
           IF Structured(calls[i].failure)
             THEN calls[i].failure
             ELSE Wrapped(calls[i].failure, UNKNOWN_ERROR,
                          FailureMessage(calls[i].op))

\* C9 happens: a provider call that threw a plain Error has been rejected as
\* an UNKNOWN_ERROR carrying it.
C9_Witness ==
  \E i \in Slots :
    /\ SettledOperation(i)
    /\ calls[i].stage = "provider"
    /\ calls[i].failure = JsError("socket hang up")
    /\ calls[i].value.code = UNKNOWN_ERROR
    /\ calls[i].value.details = calls[i].failure

\* the confidence the specification gives a raw category: the provider's
\* value if it supplied one, else 1.0
StatedConfidence(c) ==
  IF c.confidence = Undefined THEN FullConfidence ELSE c.confidence.v

NonIncreasing(categories) ==
  \A j \in 1..(Len(categories) - 1) :
    categories[j].confidence.v >= categories[j + 1].confidence.v

\* C10, as stated: the categories of a classifyText response are in
\* non-increasing order of confidence, and with maxCategories = k supplied
\* they are the k highest-confidence categories among those that passed the
\* minConfidence filter.
C10_SortedThenTruncated ==
  \A i \in Slots :
    SettledOperation(i) /\ calls[i].op = "classifyText"
      /\ calls[i].outcome = "resolved" =>
      LET request == calls[i].req
          returned == calls[i].value.categories.v
          names == {returned[j].name : j \in 1..Len(returned)}
          k == request.maxCategories
      IN /\ NonIncreasing(returned)
         /\ k # Undefined =>
                LET passing ==
                      SelectSeq(calls[i].received.categories.v,
                        LAMBDA c : request.minConfidence = Undefined
                          \/ StatedConfidence(c) >= request.minConfidence.v)
                IN /\ Len(returned) = Min(k.v, Len(passing))
                   /\ \A j \in 1..Len(returned) :
                        \E m \in 1..Len(passing) :
                          /\ passing[m].name = returned[j].name
                          /\ StatedConfidence(passing[m])
                               = returned[j].confidence.v
                   /\ \A m \in 1..Len(passing) :
                        passing[m].name \notin names =>
                          \A j \in 1..Len(returned) :
                            returned[j].confidence.v
                              >= StatedConfidence(passing[m])

\* the raw categories of a classification result that pass a request's
\* minConfidence, by the confidence the provider stated
PassingCategories(request, apiResponse) ==
  SelectSeq(apiResponse.categories.v,
    LAMBDA c : request.minConfidence = Undefined
      \/ StatedConfidence(c) >= request.minConfidence.v)

\* C11, as stated: whenever a classifyText request supplies maxCategories,
\* 0 included, the response holds exactly min(maxCategories, number of
\* categories passing the minConfidence filter) categories.
C11_AtMostMaxCategories ==
  \A i \in Slots :
    SettledOperation(i) /\ calls[i].op = "classifyText"
      /\ calls[i].outcome = "resolved"
      /\ calls[i].req.maxCategories # Undefined =>
      LET returned == calls[i].value.categories.v
          passing == PassingCategories(calls[i].req, calls[i].received)
      IN /\ Len(returned) <= calls[i].req.maxCategories.v
         /\ Len(returned) = Min(calls[i].req.maxCategories.v, Len(passing))

\* the confidence the specification gives a raw entity: the provider's
\* salience if it supplied one, else 1.0
StatedSalience(e) ==
  IF e.salience = Undefined THEN FullConfidence ELSE e.salience.v

\* a raw entity passes the filters a request supplies
PassesFilters(request, e) ==
  /\ request.entityTypes = Undefined \/ Includes(request.entityTypes, e.type)
  /\ request.minConfidence = Undefined
       \/ StatedSalience(e) >= request.minConfidence.v

\* the names of a list of entities or categories, in order
Names(s) == [j \in 1..Len(s) |-> s[j].name]

\* C12, as stated: an entity of the provider result is in the extractEntities
\* response if and only if its type passes the entityTypes filter (when one
\* is supplied) and its confidence is at least minConfidence (when one is
\* supplied, 0 included).
C12_EntityKeptIffPassesFilters ==
  \A i \in Slots :
    SettledOperation(i) /\ calls[i].op = "extractEntities"
      /\ calls[i].outcome = "resolved" =>
      LET raw == calls[i].received.entities.v
          returned == Names(calls[i].value.entities.v)
      IN \A j \in 1..Len(raw) :
           (\E m \in 1..Len(returned) : returned[m] = raw[j].name)
             <=> PassesFilters(calls[i].req, raw[j])

\* the place of a name in a list of names, 0 when it is not in the list
PlaceOf(names, n) ==
  IF \E p \in 1..Len(names) : names[p] = n
    THEN CHOOSE p \in 1..Len(names) : names[p] = n
    ELSE 0

\* C13: the entities of an extractEntities response are a subsequence of the
\* provider's entities: each is one of the provider's, and they keep the
\* order the provider gave them.
C13_EntitiesAreSubsequence ==
  \A i \in Slots :
    SettledOperation(i) /\ calls[i].op = "extractEntities"
      /\ calls[i].outcome = "resolved" =>
      LET raw == Names(calls[i].received.entities.v)
          returned == Names(calls[i].value.entities.v)
      IN /\ \A j \in 1..Len(returned) : PlaceOf(raw, returned[j]) > 0
         /\ \A j \in 1..Len(returned), k \in 1..Len(returned) :
              j < k => PlaceOf(raw, returned[j]) < PlaceOf(raw, returned[k])

\* C13 happens: of three entities the provider returned, the second was
\* filtered out and the first and third were returned in that order, the
\* third with the higher confidence.
C13_Witness ==
  \E i \in Slots :
    /\ SettledOperation(i)
    /\ calls[i].op = "extractEntities"
    /\ calls[i].outcome = "resolved"
    /\ Names(calls[i].received.entities.v) = <<Str("e1"), Str("e2"), Str("e3")>>
    /\ Names(calls[i].value.entities.v) = <<Str("e1"), Str("e3")>>
    /\ calls[i].value.entities.v[1].confidence.v
         < calls[i].value.entities.v[2].confidence.v

\* C14, as stated: with an empty entityTypes list in the request, no entity
\* is dropped because of its type: every entity of the provider result whose
\* confidence passes minConfidence is in the response.
C14_EmptyEntityTypesKeepsAllTypes ==
  \A i \in Slots :
    SettledOperation(i) /\ calls[i].op = "extractEntities"
      /\ calls[i].outcome = "resolved"
      /\ calls[i].req.entityTypes = Arr(<<>>) =>
      LET raw == calls[i].received.entities.v
          returned == Names(calls[i].value.entities.v)
      IN \A j \in 1..Len(raw) :
           (calls[i].req.minConfidence = Undefined
              \/ StatedSalience(raw[j]) >= calls[i].req.minConfidence.v)
             => PlaceOf(returned, raw[j].name) > 0

ResolvedLanguage(request, cfg) ==
  IF Truthy(request.language) THEN request.language
  ELSE IF Truthy(Opt(Opt(cfg, "options"), "defaultLanguage"))
    THEN Opt(Opt(cfg, "options"), "defaultLanguage")
  ELSE VIETNAMESE

\* C16, as stated: in all three operations the descriptor sent to the
\* provider carries the request's language if supplied, else the configured
\* default language if set, else Vietnamese, and the sanitized request text
\* as content.
C16_DescriptorLanguageAndContent ==
  \A i \in Slots :
    calls[i].pc \in {"awaitProvider", "done"}
      /\ calls[i].op \in Operations /\ calls[i].invoked # <<>> =>
      /\ calls[i].sent.document.language
           = ResolvedLanguage(calls[i].req, config)
      /\ calls[i].sent.document.content
           = Str(sanitizeText(calls[i].req.text.v))

\* C17, as stated: every confidence in a returned category or entity is the
\* value the provider stated for it (confidence of a category, salience of
\* an entity), 0 and out-of-range values included, and 1.0 only when the
\* provider stated none.
C17_ConfidenceIsProviderValue ==
  \A i \in Slots :
    SettledOperation(i) /\ calls[i].outcome = "resolved" =>
      /\ calls[i].op = "classifyText" =>
           LET raw == calls[i].received.categories.v
               returned == calls[i].value.categories.v
           IN \A j \in 1..Len(returned) :
                returned[j].confidence.v =
                  StatedConfidence(raw[PlaceOf(Names(raw), returned[j].name)])
      /\ calls[i].op = "extractEntities" =>
           LET raw == calls[i].received.entities.v
               returned == calls[i].value.entities.v
           IN \A j \in 1..Len(returned) :
                returned[j].confidence.v =
                  StatedSalience(raw[PlaceOf(Names(raw), returned[j].name)])

\* piece occurs in text at offset (counted from 0) and nowhere before it
FirstOccursAt(text, piece, offset) ==
  /\ offset >= 0
  /\ offset + Len(piece) <= Len(text)
  /\ SubSeq(text, offset + 1, offset + Len(piece)) = piece
  /\ \A k \in 0..(offset - 1) : SubSeq(text, k + 1, k + Len(piece)) # piece

Constructed ==
  /\ result # Undefined
  /\ result.op \in {"new NlpService", "getNlpService"}
  /\ result.made

\* C19: a step that constructs an NlpService from a supplied configuration
\* (by new NlpService or by getNlpService) makes that very object the
\* instance's configuration, with the content it had, and changes none of the
\* exported configuration objects, whatever the environment holds.
C19_ExplicitConfigUsedAsIs ==
  [][Len(instances') = Len(instances) + 1 /\ Truthy(result'.arg) =>
       /\ instances'[Len(instances')] = result'.arg
       /\ Deref(instances'[Len(instances')], presets')
            = Deref(result'.arg, presets)
       /\ presets' = presets]_vars

\* C19 happens: with NLP_API_KEY set in the environment, an NlpService was
\* constructed from a caller's configuration, and its configuration is that
\* object, without credentials.
C19_Witness ==
  /\ Constructed
  /\ result.env.NLP_API_KEY = Str("key")
  /\ "val" \in DOMAIN result.arg
  /\ instances[result.instance] = result.arg
  /\ ~HasField(result.value, "credentials")

\* the fields of a configuration that the environment can set
ConfigFields ==
  {"projectId", "region", "credentials", "endpoint", "defaultTimeoutMs",
   "maxRetries"}

\* the value of such a field in configuration c, undefined when it has none
\* (projectId and region are options)
Field(c, f) ==
  IF f \in {"projectId", "region"} THEN Opt(Get(c, "options"), f)
  ELSE Get(c, f)

\* the value environment e gives such a field, undefined when the variable
\* is unset or empty
EnvField(e, f) ==
  CASE f = "projectId" -> OrElse(e.GOOGLE_CLOUD_PROJECT, Undefined)
    [] f = "region" -> OrElse(e.GOOGLE_CLOUD_REGION, Undefined)
    [] f = "credentials" -> OrElse(e.NLP_API_KEY, Undefined)
    [] f = "endpoint" -> OrElse(e.NLP_API_ENDPOINT, Undefined)
    [] f = "defaultTimeoutMs" ->
         IF TruthyText(e.NLP_REQUEST_TIMEOUT_MS)
           THEN parseInt(e.NLP_REQUEST_TIMEOUT_MS) ELSE Undefined
    [] f = "maxRetries" ->
         IF TruthyText(e.NLP_MAX_RETRIES)
           THEN parseInt(e.NLP_MAX_RETRIES) ELSE Undefined

\* the first of the values that is not undefined
FirstDefined(values) ==
  IF \E k \in 1..Len(values) : values[k] # Undefined
    THEN values[CHOOSE k \in 1..Len(values) :
                  /\ values[k] # Undefined
                  /\ \A j \in 1..(k - 1) : values[j] = Undefined]
    ELSE Undefined

\* the call result records resolved a configuration: it was loadConfigFromEnv
\* or it constructed an NlpService
Resolved ==
  /\ result # Undefined
  /\ result.op = "loadConfigFromEnv" \/ result.made

SelectedPreset(e) ==
  LET provider == e.NLP_SERVICE_PROVIDER IN
  IF provider = Str("GOOGLE_CLOUD_NLP") THEN "GOOGLE_CLOUD_NLP_CONFIG"
  ELSE IF provider \in {Undefined, Str(""), Str("VERTEX_AI")}
    THEN "VERTEX_AI_CONFIG"
  ELSE "DEFAULT_NLP_CONFIG"

C21_LoadConfigFromEnvOnlyReads ==
  /\ presets = Presets
  /\ result # Undefined /\ result.op = "loadConfigFromEnv" =>
       result.value =
         Deref(loadConfigFromEnv(result.env, Presets).config,
               loadConfigFromEnv(result.env, Presets).presets)


\* C22: the configuration of a constructed NlpService never changes.  No
\* step changes the content of the object an existing instance's config
\* refers to, nor which object that is.
C22_ConfigFixedAtConstruction ==
  [][/\ config' = config
     /\ \A k \in 1..Len(instances) :
          /\ instances'[k] = instances[k]
          /\ Deref(instances'[k], presets') = Deref(instances[k], presets)]_vars


\* C23: getNlpService without a configuration constructs an NlpService only
\* when none is stored and otherwise returns the stored one, which is the
\* one the previous getNlpService call returned; with a configuration it
\* constructs a new NlpService holding that configuration.  The instance a
\* call returns is stored, and nothing but getNlpService changes what is
\* stored.
C23_SingletonReusedUnlessConfigured ==
  [][IF result' # result /\ result'.op = "getNlpService"
       THEN /\ nlpServiceInstance' = result'.instance
            /\ IF Truthy(result'.arg) \/ nlpServiceInstance = 0
                 THEN /\ result'.made
                      /\ instances' = Append(instances, result'.config)
                      /\ result'.instance = Len(instances')
                      /\ Truthy(result'.arg) => result'.config = result'.arg
                 ELSE /\ ~result'.made
                      /\ instances' = instances
                      /\ result'.instance = nlpServiceInstance
       ELSE nlpServiceInstance' = nlpServiceInstance]_vars

\* C23 happens: after getNlpService(config) has replaced an earlier instance
\* by a second one, getNlpService() returns the second without constructing.
C23_Witness ==
  /\ result # Undefined
  /\ result.op = "getNlpService"
  /\ result.arg = Undefined
  /\ ~result.made
  /\ result.instance = 2
  /\ nlpServiceInstance = 2
  /\ "val" \in DOMAIN instances[2]


\* C24, as stated: every settled operation whose request is valid has
\* invoked its own provider-client method once and nothing else.
C24_ValidRequestInvokesOnce ==
  \A i \in Slots :
    SettledOperation(i) /\ validateNlpRequest(calls[i].req) = NoError =>
      calls[i].invoked = <<Method(calls[i].op)>>

\* C24, amended: an operation never invokes any provider-client method but
\* its own and never more than once; a settled operation whose request is
\* valid has invoked it once, unless the initialization it awaited failed,
\* and then it has invoked nothing.
C24_InvokesOnceUnlessInitFails ==
  \A i \in Slots :
    calls[i].pc # "idle" /\ calls[i].op \in Operations =>
      /\ calls[i].invoked \in {<<>>, <<Method(calls[i].op)>>}
      /\ SettledOperation(i) /\ validateNlpRequest(calls[i].req) = NoError =>
           IF calls[i].stage = "init"
             THEN calls[i].invoked = <<>>
             ELSE calls[i].invoked = <<Method(calls[i].op)>>

\* C24 happens: with maxRetries 3 in the configuration, an operation whose
\* provider call was rejected has settled after one invocation.
C24_Witness ==
  \E i \in Slots :
    /\ SettledOperation(i)
    /\ calls[i].stage = "provider"
    /\ calls[i].outcome = "rejected"
    /\ Get(config, "maxRetries") = Num(3)
    /\ calls[i].invoked = <<Method(calls[i].op)>>


\* a settled direct call of formatError
FormatErrorCalled(i) == calls[i].pc = "done" /\ calls[i].op = "formatError"

\* formatError called again on what a call of it returned returns the same
Idempotent ==
  \A i, j \in Slots :
    /\ FormatErrorCalled(i)
    /\ FormatErrorCalled(j)
    /\ calls[j].req.error = calls[i].value
    => calls[j].value = calls[i].value

\* the message of the object formatError builds for error when message
\* does not decide it
OwnMessage(error) ==
  IF IsError(error) THEN error.message
  ELSE IF error.t = "string" THEN error
  ELSE Str("An unknown error occurred")

\* C25, as stated: formatError returns an object with a code and a message
\* as it is and is idempotent; of anything else it makes an object with the
\* given code (UNKNOWN_ERROR when none is given), the input as details and,
\* as message, the given message whenever one is given.
C25_SuppliedMessageIsUsed ==
  /\ Idempotent
  /\ \A i \in Slots :
       FormatErrorCalled(i) =>
         LET error == calls[i].req.error
             code == calls[i].req.code
             message == calls[i].req.message
         IN IF Structured(error)
              THEN calls[i].value = error
              ELSE calls[i].value =
                     Wrapped(error,
                             IF code = Undefined THEN UNKNOWN_ERROR ELSE code,
                             IF message # Undefined THEN message
                             ELSE OwnMessage(error))

\* C25, amended: the same, with the given message used when it is not
\* empty; an empty message counts as none.
C25_NonEmptyMessageIsUsed ==
  /\ Idempotent
  /\ \A i \in Slots :
       FormatErrorCalled(i) =>
         LET error == calls[i].req.error
             code == calls[i].req.code
             message == calls[i].req.message
         IN IF Structured(error)
              THEN calls[i].value = error
              ELSE calls[i].value =
                     Wrapped(error,
                             IF code = Undefined THEN UNKNOWN_ERROR ELSE code,
                             IF message \notin {Undefined, Str("")} THEN message
                             ELSE OwnMessage(error))

\* C25 happens: formatError has wrapped an Error, given no code and no
\* message, as an UNKNOWN_ERROR with the Error's message, and a second call
\* on the result with another code and message has returned the result.
C25_Witness ==
  /\ FormatErrorCalled(1)
  /\ FormatErrorCalled(2)
  /\ calls[1].req = [error |-> JsError("socket hang up"), code |-> Undefined,
                     message |-> Undefined]
  /\ calls[1].value.code = UNKNOWN_ERROR
  /\ calls[1].value.message = Str("socket hang up")
  /\ calls[2].req = [error |-> calls[1].value, code |-> SERVICE_UNAVAILABLE,
                     message |-> Str("Failed to analyze sentiment.")]
  /\ calls[2].value = calls[1].value


\* an ingredient that is empty, null, undefined or not a string
InvalidIngredient(ingredient) ==
  \/ ingredient \in {Undefined, Null, Str(<<>>)}
  \/ ingredient.t # "string"

\* C26: a call of fetchMealsByIngredient with an invalid ingredient is
\* rejected with the invalid-ingredient Error and has issued no HTTP request
\* (a call awaiting an HTTP response has a valid ingredient); processMeals
\* returns null for null and undefined and the list itself for a meal list.
C26_InvalidIngredientRejectedMealsPassed ==
  \A i \in Slots :
    /\ calls[i].pc # "idle" /\ calls[i].op = "fetchMealsByIngredient"
         /\ InvalidIngredient(calls[i].req) =>
           /\ calls[i].pc = "done"
           /\ calls[i].outcome = "rejected"
           /\ IsError(calls[i].value)
           /\ calls[i].value.message =
                Str("Invalid ingredient provided. Ingredient must be a non-empty string.")
           /\ calls[i].invoked = <<>>
    /\ calls[i].pc = "done" /\ calls[i].op = "processMeals" =>
         /\ calls[i].req \in {Null, Undefined} => calls[i].value = Null
         /\ IsArray(calls[i].req) => calls[i].value = calls[i].req

\* C26 happens: fetchMealsByIngredient(5) has been rejected without a
\* request while processMeals(undefined) has returned null.
C26_Witness ==
  \E i, j \in Slots :
    /\ calls[i].pc = "done"
    /\ calls[i].op = "fetchMealsByIngredient"
    /\ calls[i].req = Num(5)
    /\ calls[i].outcome = "rejected"
    /\ calls[i].invoked = <<>>
    /\ calls[j].pc = "done"
    /\ calls[j].op = "processMeals"
    /\ calls[j].req = Undefined
    /\ calls[j].value = Null


\* call i found the facade Uninitialized and its initialization has succeeded
Initialized(i) ==
  /\ calls[i].pc \in {"awaitProvider", "done"}
  /\ calls[i].inits = 1
  /\ calls[i].pc = "done" => calls[i].stage # "init"

\* a step in which the initialization awaited by call i succeeds
InitCompletes(i) ==
  /\ calls[i].pc = "awaitInit"
  /\ calls'[i].pc # "awaitInit"
  /\ ~(calls'[i].pc = "done" /\ calls'[i].stage = "init")

\* C27: calls that overlap on an Uninitialized facade each initialize.  Every
\* initialization that succeeds produces a handle of its own and stores it
\* over whatever is there, so the facade holds the handle of the one that
\* completed last, and two calls that have both initialized mean two handles
\* were produced.  The call goes on as if alone: init() resolves and an
\* operation is rejected at this point only by validation of its request.
C27_LastInitializationWins ==
  /\ [][\A i \in Slots :
          InitCompletes(i) =>
            /\ created' = created + 1
            /\ client' = created'
            /\ calls'[i].op = "init" =>
                 calls'[i].pc = "done" /\ calls'[i].outcome = "resolved"
            /\ calls'[i].pc = "done" /\ calls'[i].outcome = "rejected" =>
                 /\ calls'[i].stage = "validate"
                 /\ calls'[i].value = validateNlpRequest(calls'[i].req)]_vars
  /\ [](client = created)
  /\ [](\A i, j \in Slots :
          i # j /\ Initialized(i) /\ Initialized(j) => created >= 2)

\* C27 happens: init() and analyzeSentiment overlapped on an Uninitialized
\* facade, both initialized and both resolved; two handles were produced and
\* the facade holds the second.
C27_Witness ==
  \E i, j \in Slots :
    /\ Initialized(i)
    /\ Initialized(j)
    /\ calls[i].op = "init"
    /\ calls[j].op = "analyzeSentiment"
    /\ calls[i].outcome = "resolved"
    /\ calls[j].pc = "done"
    /\ calls[j].outcome = "resolved"
    /\ created = 2
    /\ client = 2


\* a step in which the initialization awaited by call i fails
InitFails(i) ==
  /\ calls[i].pc = "awaitInit"
  /\ calls'[i].pc = "done"
  /\ calls'[i].stage = "init"

\* a step in which init() or an operation is called in slot i
Called(i) ==
  /\ calls[i].pc = "idle"
  /\ calls'[i].pc # "idle"
  /\ calls'[i].op \in Operations \cup {"init"}

\* C28: a failed initialization leaves the client handle as it was, absent
\* if it was absent; a call of init() or of an operation that finds it absent
\* initializes; an initialization that succeeds makes the facade Ready; and a
\* Ready facade stays Ready.
C28_FailedInitIsRetriedReadyStays ==
  [][/\ \A i \in Slots :
          /\ InitFails(i) => client' = client /\ created' = created
          /\ Called(i) /\ client = 0 =>
               calls'[i].pc = "awaitInit" /\ calls'[i].inits = 1
          /\ InitCompletes(i) => client' # 0
     /\ client # 0 => client' # 0]_vars

\* C28 happens: an init() call has been rejected for a failed initialization
\* and the facade is Ready by the one initialization that succeeded, made by
\* an operation that has resolved.
C28_Witness ==
  \E i, j \in Slots :
    /\ calls[i].pc = "done"
    /\ calls[i].op = "init"
    /\ calls[i].outcome = "rejected"
    /\ calls[i].stage = "init"
    /\ Initialized(j)
    /\ calls[j].op \in Operations
    /\ calls[j].pc = "done"
    /\ calls[j].outcome = "resolved"
    /\ created = 1
    /\ client = 1


\* C29: the content of the document an operation passes to the provider
\* client (and no operation passes one unless its request is valid) is a
\* string that is not empty.
C29_ContentSentIsNonEmpty ==
  \A i \in Slots :
    calls[i].pc \in {"awaitProvider", "done"} /\ calls[i].op \in Operations
      /\ calls[i].invoked # <<>> =>
        /\ validateNlpRequest(calls[i].req) = NoError
        /\ calls[i].sent.document.content.t = "string"
        /\ Len(calls[i].sent.document.content.v) > 0


\* C30: in the sentence records the fallback of analyzeSentiment returns,
\* every beginOffset is a number that is not negative and each is greater
\* than the one before it.
C30_FallbackOffsetsIncrease ==
  \A i \in Slots :
    SettledOperation(i) /\ calls[i].op = "analyzeSentiment"
      /\ calls[i].outcome = "resolved"
      /\ Truthy(calls[i].req.analyzeSentences)
      /\ ~Truthy(Get(calls[i].received, "sentences")) =>
      LET sentences == calls[i].value.sentences.v IN
      /\ \A j \in 1..Len(sentences) :
           /\ sentences[j].beginOffset.t = "number"
           /\ sentences[j].beginOffset.v >= 0
      /\ \A j \in 1..(Len(sentences) - 1) :
           sentences[j].beginOffset.v < sentences[j + 1].beginOffset.v

====
